---- MODULE Spec2Model ----
(***************************************************************************)
(* Model of homework.py (Gen121/Activity-Tracker): the fitness-tracker     *)
(* calculator with its workout classes, the read_package factory, the      *)
(* InfoMessage formatter and the driver loop of the __main__ block.        *)
(*                                                                         *)
(* Numbers are exact rationals [n |-> numerator, d |-> denominator] in     *)
(* lowest terms with d > 0; the rounding error of IEEE-754 doubles is not  *)
(* modelled.  Python exceptions are values [err |-> <exception name>].     *)
(* Text (what print writes) is a sequence of Unicode code points.          *)
(***************************************************************************)
EXTENDS Integers, Sequences, FiniteSets, TLC

VARIABLES packages, i, pc, origin, training, info, err, out

vars == <<packages, i, pc, origin, training, info, err, out>>

-----------------------------------------------------------------------------
(* Rational arithmetic: the float operators *, /, +, -, ** 2 and //.       *)

Abs(x) == IF x < 0 THEN -x ELSE x

RECURSIVE GCD(_, _)
GCD(a, b) == IF b = 0 THEN a ELSE GCD(b, a % b)

Norm(n, d) ==
    LET g == GCD(Abs(n), Abs(d))
        s == IF d < 0 THEN -1 ELSE 1
    IN  [n |-> s * (n \div g), d |-> s * (d \div g)]

R(n, d) == Norm(n, d)

Q(n) == [n |-> n, d |-> 1]

\* A float zero keeps a sign: 0.0 is [n |-> 0, d |-> 1] and -0.0 is
\* [n |-> 0, d |-> -1]; every other value has d > 0.
Zero(sign) == [n |-> 0, d |-> sign]

Sgn(a) == IF a.n < 0 \/ (a.n = 0 /\ a.d < 0) THEN -1 ELSE 1

IsErr(x) == "err" \in DOMAIN x

Raise(e) == [err |-> e]

RNeg(a) == IF a.n = 0 THEN Zero(-a.d) ELSE [n |-> -a.n, d |-> a.d]

\* a + b : an exact zero sum is +0.0 unless both operands are -0.0
RAdd(a, b) ==
    IF a.n = 0 /\ b.n = 0
      THEN Zero(IF Sgn(a) < 0 /\ Sgn(b) < 0 THEN -1 ELSE 1)
    ELSE IF a.n = 0 THEN b
    ELSE IF b.n = 0 THEN a
    ELSE Norm(a.n * b.d + b.n * a.d, a.d * b.d)

RSub(a, b) == RAdd(a, RNeg(b))

\* a * b : a zero product carries the product of the signs
RMul(a, b) ==
    IF a.n = 0 \/ b.n = 0 THEN Zero(Sgn(a) * Sgn(b))
    ELSE LET g1 == GCD(Abs(a.n), b.d)
             g2 == GCD(Abs(b.n), a.d)
         IN  Norm((a.n \div g1) * (b.n \div g2), (a.d \div g2) * (b.d \div g1))

\* a / b : ZeroDivisionError when b is zero (int or float operand alike)
RDiv(a, b) ==
    IF b.n = 0 THEN Raise("ZeroDivisionError")
    ELSE RMul(a, Norm(b.d, b.n))

\* a // b : floor of the quotient; ZeroDivisionError when b is zero
RFloorDiv(a, b) ==
    IF b.n = 0 THEN Raise("ZeroDivisionError")
    ELSE LET q == RMul(a, Norm(b.d, b.n))
         IN  IF q.n = 0 THEN q ELSE Q(q.n \div q.d)

\* numeric comparisons (0.0 and -0.0 are equal)
RLess(a, b) == a.n * Abs(b.d) < b.n * Abs(a.d)

REq(a, b) == a.n * Abs(b.d) = b.n * Abs(a.d)

\* a ** k for a small non-negative integer exponent k
RECURSIVE RPow(_, _)
RPow(a, k) == IF k = 0 THEN Q(1) ELSE RMul(a, RPow(a, k - 1))

-----------------------------------------------------------------------------
(* Text: format spec .3f and the literal pieces of the f-strings.          *)

RECURSIVE Digits(_)
Digits(n) == IF n < 10 THEN <<48 + n>> ELSE Digits(n \div 10) \o <<48 + (n % 10)>>

\* nearest integer to p/q (p >= 0, q > 0), ties to even
RoundHalfEven(p, q) ==
    LET f == p \div q
        r == p % q
    IN  IF 2 * r < q THEN f
        ELSE IF 2 * r > q THEN f + 1
        ELSE IF f % 2 = 0 THEN f ELSE f + 1

\* format(x, '.3f')
Fmt3(x) ==
    LET m    == RoundHalfEven(Abs(x.n) * 1000, Abs(x.d))
        frac == m % 1000
        sign == IF Sgn(x) < 0 THEN <<45>> ELSE <<>>
    IN  sign \o Digits(m \div 1000) \o <<46>>
             \o <<48 + (frac \div 100), 48 + ((frac \div 10) % 10), 48 + (frac % 10)>>

\* "Тип тренировки: "
LBL_TYPE == <<1058, 1080, 1087, 32, 1090, 1088, 1077, 1085, 1080, 1088, 1086, 1074, 1082, 1080, 58, 32>>
\* "; Длительность: "
LBL_DURATION == <<59, 32, 1044, 1083, 1080, 1090, 1077, 1083, 1100, 1085, 1086, 1089, 1090, 1100, 58, 32>>
\* " ч.; Дистанция: "
LBL_DISTANCE == <<32, 1095, 46, 59, 32, 1044, 1080, 1089, 1090, 1072, 1085, 1094, 1080, 1103, 58, 32>>
\* " км; Ср. скорость: "
LBL_SPEED == <<32, 1082, 1084, 59, 32, 1057, 1088, 46, 32, 1089, 1082, 1086, 1088, 1086, 1089, 1090, 1100, 58, 32>>
\* " км/ч; Потрачено ккал: "
LBL_CALORIES == <<32, 1082, 1084, 47, 1095, 59, 32, 1055, 1086, 1090, 1088, 1072, 1095, 1077, 1085, 1086, 32, 1082, 1082, 1072, 1083, 58, 32>>
\* "."
LBL_END == <<46>>
\* "<KeyError! A valid training code is required>"
MSG_KEYERROR == <<60, 75, 101, 121, 69, 114, 114, 111, 114, 33, 32, 65, 32, 118, 97, 108, 105, 100, 32, 116, 114, 97, 105, 110, 105, 110, 103, 32, 99, 111, 100, 101, 32, 105, 115, 32, 114, 101, 113, 117, 105, 114, 101, 100, 62>>
\* "<The default function will be called>"
MSG_DEFAULT == <<60, 84, 104, 101, 32, 100, 101, 102, 97, 117, 108, 116, 32, 102, 117, 110, 99, 116, 105, 111, 110, 32, 119, 105, 108, 108, 32, 98, 101, 32, 99, 97, 108, 108, 101, 100, 62>>

\* str of a class name
ClassNameText(cls) ==
    CASE cls = "Training"      -> <<84, 114, 97, 105, 110, 105, 110, 103>>
      [] cls = "Running"       -> <<82, 117, 110, 110, 105, 110, 103>>
      [] cls = "SportsWalking" -> <<83, 112, 111, 114, 116, 115, 87, 97, 108, 107, 105, 110, 103>>
      [] cls = "Swimming"      -> <<83, 119, 105, 109, 109, 105, 110, 103>>

-----------------------------------------------------------------------------
(* InfoMessage                                                              *)

InfoMessage(training_type, duration, distance, speed, calories) ==
    [training_type |-> training_type, duration |-> duration,
     distance |-> distance, speed |-> speed, calories |-> calories]

\* get_message with the distance and the speed taken for one another
get_message_swapped(self) ==
    LBL_TYPE \o ClassNameText(self.training_type)
      \o LBL_DURATION \o Fmt3(self.duration)
      \o LBL_DISTANCE \o Fmt3(self.speed)
      \o LBL_SPEED \o Fmt3(self.distance)
      \o LBL_CALORIES \o Fmt3(self.calories)
      \o LBL_END

get_message(self) ==
    LBL_TYPE \o ClassNameText(self.training_type)
      \o LBL_DURATION \o Fmt3(self.duration)
      \o LBL_DISTANCE \o Fmt3(self.distance)
      \o LBL_SPEED \o Fmt3(self.speed)
      \o LBL_CALORIES \o Fmt3(self.calories)
      \o LBL_END

-----------------------------------------------------------------------------
(* Training and its subclasses                                              *)

M_IN_KM == 1000
MIN_IN_HOUR == 60
MULT_COEF_CALORIE_SPEED == 18
SUBTRAHEND_COEF_CALORIE_SPEED == 20
SQUARE_COEF_CALORIE_SPEED == 2
MULT_COEF_CALORIE_WEIGH == R(35, 1000)
WLK_MULT_COEF_CALORIE_GENERAL == R(29, 1000)
TERM_COEF_CALORIE_SPEED == R(11, 10)
SWM_MULT_COEF_CALORIE_GENERAL == 2

\* class attribute lookup: Swimming overrides Training.LEN_STEP
LEN_STEP(cls) == IF cls = "Swimming" THEN R(138, 100) ELSE R(65, 100)

Training(action, duration, weight) ==
    [cls |-> "Training", action |-> action, duration |-> duration,
     weight |-> weight]

Running(action, duration, weight) ==
    [cls |-> "Running", action |-> action, duration |-> duration,
     weight |-> weight]

SportsWalking(action, duration, weight, height) ==
    [cls |-> "SportsWalking", action |-> action, duration |-> duration,
     weight |-> weight, height |-> height]

Swimming(action, duration, weight, length_pool, count_pool) ==
    [cls |-> "Swimming", action |-> action, duration |-> duration,
     weight |-> weight, length_pool |-> length_pool,
     count_pool |-> count_pool]

get_distance(self) ==
    RMul(RMul(self.action, LEN_STEP(self.cls)), R(1, M_IN_KM))

\* get_mean_speed that guards the division and yields 0 for a zero duration
Training_get_mean_speed_guarded(self) ==
    IF self.duration.n = 0 THEN Q(0)
    ELSE RDiv(get_distance(self), self.duration)

Training_get_mean_speed(self) == RDiv(get_distance(self), self.duration)

\* Swimming without its own get_mean_speed: distance / duration
Swimming_get_mean_speed_inherited(self) ==
    RDiv(get_distance(self), self.duration)

Swimming_get_mean_speed(self) ==
    RDiv(RMul(RMul(self.length_pool, self.count_pool), R(1, M_IN_KM)),
         self.duration)

\* method resolution: only Swimming overrides get_mean_speed
get_mean_speed(self) ==
    IF self.cls = "Swimming" THEN Swimming_get_mean_speed(self)
    ELSE Training_get_mean_speed(self)

\* a base class that answers 0 instead of raising
Training_get_spent_calories_zero(self) == Q(0)

Training_get_spent_calories(self) == Raise("NotImplementedError")

\* the running formula with the subtrahend applied to the speed before the
\* multiplication: 18 * (average_speed - 20)
Running_get_spent_calories_precedence(self) ==
    LET average_speed == get_mean_speed(self)
    IN  IF IsErr(average_speed) THEN average_speed
        ELSE LET duration_in_minutes == RMul(self.duration, Q(MIN_IN_HOUR))
             IN  RMul(RMul(RMul(RMul(Q(MULT_COEF_CALORIE_SPEED),
                                     RSub(average_speed,
                                          Q(SUBTRAHEND_COEF_CALORIE_SPEED))),
                                self.weight),
                           R(1, M_IN_KM)),
                      duration_in_minutes)

\* the running formula clamped at zero
Running_get_spent_calories_clamped(self) ==
    LET average_speed == get_mean_speed(self)
    IN  IF IsErr(average_speed) THEN average_speed
        ELSE LET duration_in_minutes == RMul(self.duration, Q(MIN_IN_HOUR))
                 value == RMul(RMul(RMul(RSub(RMul(Q(MULT_COEF_CALORIE_SPEED),
                                                   average_speed),
                                              Q(SUBTRAHEND_COEF_CALORIE_SPEED)),
                                         self.weight),
                                    R(1, M_IN_KM)),
                               duration_in_minutes)
             IN  IF value.n < 0 THEN Q(0) ELSE value

Running_get_spent_calories(self) ==
    LET average_speed == get_mean_speed(self)
    IN  IF IsErr(average_speed) THEN average_speed
        ELSE LET duration_in_minutes == RMul(self.duration, Q(MIN_IN_HOUR))
             IN  RMul(RMul(RMul(RSub(RMul(Q(MULT_COEF_CALORIE_SPEED),
                                          average_speed),
                                     Q(SUBTRAHEND_COEF_CALORIE_SPEED)),
                                self.weight),
                           R(1, M_IN_KM)),
                      duration_in_minutes)

\* the walking formula with true division (/) in place of //
SportsWalking_get_spent_calories_truediv(self) ==
    LET average_speed == get_mean_speed(self)
    IN  IF IsErr(average_speed) THEN average_speed
        ELSE LET duration_in_minutes == RMul(self.duration, Q(MIN_IN_HOUR))
                 square == RPow(average_speed, SQUARE_COEF_CALORIE_SPEED)
                 quot == RDiv(square, self.height)
             IN  IF IsErr(quot) THEN quot
                 ELSE RMul(RAdd(RMul(MULT_COEF_CALORIE_WEIGH, self.weight),
                                RMul(RMul(quot, WLK_MULT_COEF_CALORIE_GENERAL),
                                     self.weight)),
                           duration_in_minutes)

SportsWalking_get_spent_calories(self) ==
    LET average_speed == get_mean_speed(self)
    IN  IF IsErr(average_speed) THEN average_speed
        ELSE LET duration_in_minutes == RMul(self.duration, Q(MIN_IN_HOUR))
                 square == RPow(average_speed, SQUARE_COEF_CALORIE_SPEED)
                 quot == RFloorDiv(square, self.height)
             IN  IF IsErr(quot) THEN quot
                 ELSE RMul(RAdd(RMul(MULT_COEF_CALORIE_WEIGH, self.weight),
                                RMul(RMul(quot, WLK_MULT_COEF_CALORIE_GENERAL),
                                     self.weight)),
                           duration_in_minutes)

Swimming_get_spent_calories(self) ==
    LET average_speed == get_mean_speed(self)
    IN  IF IsErr(average_speed) THEN average_speed
        ELSE RMul(RMul(RAdd(average_speed, TERM_COEF_CALORIE_SPEED),
                       Q(SWM_MULT_COEF_CALORIE_GENERAL)),
                  self.weight)

\* method resolution of get_spent_calories
get_spent_calories(self) ==
    CASE self.cls = "Running"       -> Running_get_spent_calories(self)
      [] self.cls = "SportsWalking" -> SportsWalking_get_spent_calories(self)
      [] self.cls = "Swimming"      -> Swimming_get_spent_calories(self)
      [] OTHER                      -> Training_get_spent_calories(self)

\* The arguments of InfoMessage(...) are evaluated left to right; the first
\* call that raises ends show_training_info with that exception.
show_training_info(self) ==
    LET distance == get_distance(self)
        speed    == get_mean_speed(self)
        calories == get_spent_calories(self)
    IN  IF IsErr(speed)
          THEN [err |-> speed.err, at |-> "get_mean_speed"]
        ELSE IF IsErr(calories)
          THEN [err |-> calories.err, at |-> "get_spent_calories"]
        ELSE InfoMessage(self.cls, self.duration, distance, speed, calories)

-----------------------------------------------------------------------------
(* read_package                                                             *)

workout_type_dict == [SWM |-> "Swimming", RUN |-> "Running", WLK |-> "SportsWalking"]

\* constructors that take weight before duration
Construct_reordered(cls, data) ==
    CASE cls = "Running" /\ Len(data) = 3
           -> Running(data[1], data[3], data[2])
      [] cls = "SportsWalking" /\ Len(data) = 4
           -> SportsWalking(data[1], data[3], data[2], data[4])
      [] cls = "Swimming" /\ Len(data) = 5
           -> Swimming(data[1], data[3], data[2], data[4], data[5])
      [] OTHER -> Raise("TypeError")

\* cls(*data): the positional call of a constructor; a parameter list of
\* the wrong length makes the call raise TypeError
Construct(cls, data) ==
    CASE cls = "Running" /\ Len(data) = 3
           -> Running(data[1], data[2], data[3])
      [] cls = "SportsWalking" /\ Len(data) = 4
           -> SportsWalking(data[1], data[2], data[3], data[4])
      [] cls = "Swimming" /\ Len(data) = 5
           -> Swimming(data[1], data[2], data[3], data[4], data[5])
      [] OTHER -> Raise("TypeError")

\* ret: the returned object (or the exception raised); printed: the lines
\* written to standard output by the call
read_package(workout_type, data) ==
    IF workout_type \in DOMAIN workout_type_dict
      THEN [ret |-> Construct(workout_type_dict[workout_type], data),
            printed |-> <<>>]
      ELSE [ret |-> Running(Q(15000), Q(1), Q(75)),
            printed |-> <<MSG_KEYERROR, MSG_DEFAULT>>]

-----------------------------------------------------------------------------
(* Inputs                                                                   *)

MaxPackages == 3

Codes == {"SWM", "RUN", "WLK", "XYZ"}
Actions == {Q(720), Q(1000), Q(2000), Q(9000), Q(15000), Q(30000)}
Durations == {Q(0), Q(1), R(117, 100)}
Weights == {Q(0), Q(75), Q(80)}
Heights == {Q(0), Q(180)}
LengthPools == {Q(25)}
CountPools == {Q(40), Q(80)}

DataLists ==
    {<<a, d, w>> : a \in Actions, d \in Durations, w \in Weights}
    \cup {<<a, d, w, h>> :
             a \in Actions, d \in Durations, w \in Weights, h \in Heights}
    \cup {<<t[1], t[2], t[3], t[4], t[5]>> :
             t \in Actions \X Durations \X Weights \X LengthPools \X CountPools}

AllPackages == Codes \X DataLists

\* the list of the __main__ block
MainPackages ==
    << <<"SWM", <<Q(720), Q(1), Q(80), Q(25), Q(40)>> >>,
       <<"RUN", <<Q(15000), Q(1), Q(75)>> >>,
       <<"WLK", <<Q(9000), Q(1), Q(75), Q(180)>> >> >>

\* records the driver is run on in lists of several: those of the __main__
\* block, one with an unknown code and one with a zero duration
Samples ==
    {MainPackages[1], MainPackages[2], MainPackages[3],
     <<"XYZ", <<Q(720), Q(1), Q(80)>> >>,
     <<"RUN", <<Q(1000), Q(0), Q(75)>> >>}

RECURSIVE SeqsUpTo(_, _)
SeqsUpTo(S, n) ==
    IF n = 0 THEN {<<>>}
    ELSE LET T == SeqsUpTo(S, n - 1)
         IN  T \cup {Append(t, x) : t \in {u \in T : Len(u) = n - 1}, x \in S}

PackageLists ==
    {<<p>> : p \in AllPackages} \cup (SeqsUpTo(Samples, MaxPackages) \ {<<>>})

\* instances of the base class handed to main by a caller
BaseTrainings ==
    {Training(a, d, w) : a \in Actions, d \in Durations, w \in Weights}

-----------------------------------------------------------------------------
(* The driver: the for loop of the __main__ block and main(training)        *)

NoTraining == [cls |-> "None"]
NoInfo == [training_type |-> "None"]
NoErr == [err |-> "None", at |-> "None"]

\* for workout_type, data in packages: ...
InitDriver ==
    /\ packages \in PackageLists
    /\ i = 1
    /\ pc = "read"
    /\ origin = "read_package"
    /\ training = NoTraining

\* main(Training(action, duration, weight)) called by a client of the module
InitCaller ==
    /\ packages = <<>>
    /\ i = 0
    /\ pc = "show"
    /\ origin = "caller"
    /\ training \in BaseTrainings

Init ==
    /\ InitDriver \/ InitCaller
    /\ info = NoInfo
    /\ err = NoErr
    /\ out = <<>>

\* training = read_package(workout_type, data)
ReadPackage ==
    /\ pc = "read"
    /\ LET r == read_package(packages[i][1], packages[i][2])
       IN  /\ out' = out \o r.printed
           /\ IF IsErr(r.ret)
                THEN /\ pc' = "failed"
                     /\ err' = [err |-> r.ret.err, at |-> "read_package"]
                     /\ training' = training
                ELSE /\ pc' = "show"
                     /\ err' = err
                     /\ training' = r.ret
    /\ UNCHANGED <<packages, i, origin, info>>

\* info = training.show_training_info()
ShowTrainingInfo ==
    /\ pc = "show"
    /\ LET r == show_training_info(training)
       IN  IF IsErr(r)
             THEN /\ pc' = "failed"
                  /\ err' = r
                  /\ info' = info
             ELSE /\ pc' = "print"
                  /\ err' = err
                  /\ info' = r
    /\ UNCHANGED <<packages, i, origin, training, out>>

\* a driver that collects the lines newest first
PrintMessage_prepend ==
    /\ pc = "print"
    /\ out' = <<get_message(info)>> \o out
    /\ info' = NoInfo
    /\ IF i < Len(packages)
         THEN /\ i' = i + 1
              /\ pc' = "read"
         ELSE /\ i' = i
              /\ pc' = "done"
    /\ UNCHANGED <<packages, origin, training, err>>

\* print(info.get_message()); main returns and the loop goes on
PrintMessage ==
    /\ pc = "print"
    /\ out' = Append(out, get_message(info))
    /\ info' = NoInfo
    /\ IF i < Len(packages)
         THEN /\ i' = i + 1
              /\ pc' = "read"
         ELSE /\ i' = i
              /\ pc' = "done"
    /\ UNCHANGED <<packages, origin, training, err>>

Next == ReadPackage \/ ShowTrainingInfo \/ PrintMessage

Spec == Init /\ [][Next]_vars

-----------------------------------------------------------------------------
(* Properties                                                               *)

\* the record packages[i] has been through read_package and the call returned
Returned ==
    /\ origin = "read_package"
    /\ \/ pc \in {"show", "print"}
       \/ pc = "failed" /\ err.at # "read_package"

\* C1: read_package called with a code other than "SWM", "RUN", "WLK" fails
\* with an error to the caller: no workout record is returned (no default
\* record either) and no report line is printed for that code.
C1_UnknownCodeFails ==
    \A k \in 1..Len(packages) :
        (/\ origin = "read_package"
         /\ packages[k][1] \notin {"SWM", "RUN", "WLK"}
         /\ (i > k \/ (i = k /\ pc # "read")))
        => /\ pc = "failed"
           /\ i = k
           /\ err.at = "read_package"
           /\ training.cls # "Running"
           /\ info = NoInfo

\* C2: for a recognised code and a parameter list of the variant's shape,
\* read_package returns a record of the matching variant whose fields are
\* the parameters in positional order, none reordered, dropped or defaulted.
C2_PositionalFields ==
    origin = "read_package" /\ pc # "read" =>
        LET code == packages[i][1]
            data == packages[i][2]
        IN  /\ (code = "RUN" /\ Len(data) = 3) =>
                  /\ Returned \/ pc = "done"
                  /\ training = [cls |-> "Running", action |-> data[1],
                                 duration |-> data[2], weight |-> data[3]]
            /\ (code = "WLK" /\ Len(data) = 4) =>
                  /\ Returned \/ pc = "done"
                  /\ training = [cls |-> "SportsWalking", action |-> data[1],
                                 duration |-> data[2], weight |-> data[3],
                                 height |-> data[4]]
            /\ (code = "SWM" /\ Len(data) = 5) =>
                  /\ Returned \/ pc = "done"
                  /\ training = [cls |-> "Swimming", action |-> data[1],
                                 duration |-> data[2], weight |-> data[3],
                                 length_pool |-> data[4],
                                 count_pool |-> data[5]]

C2_Witness ==
    /\ origin = "read_package"
    /\ pc = "show"
    /\ packages[i] = <<"SWM", <<Q(720), Q(1), Q(80), Q(25), Q(40)>> >>
    /\ training.cls = "Swimming"
    /\ training.length_pool = Q(25)
    /\ training.count_pool = Q(40)

\* the report of the record ("RUN", [15000, 1, 75]) has been built
C3_Case ==
    /\ origin = "read_package"
    /\ pc = "print"
    /\ packages[i] = <<"RUN", <<Q(15000), Q(1), Q(75)>> >>

\* C3 as stated: the report of ("RUN", [15000, 1, 75]) has distance 9.75,
\* mean speed 9.75 and calories 649.125.
C3_Original ==
    C3_Case => /\ info.distance = R(975, 100)
               /\ info.speed = R(975, 100)
               /\ info.calories = R(649125, 1000)

\* C3 amended: the report of ("RUN", [15000, 1, 75]) has distance 9.75, mean
\* speed 9.75 and calories 699.75, the value of
\* (18 x mean_speed - 20) x weight / 1000 x (duration x 60).
C3_RunningScenario ==
    C3_Case => /\ info.training_type = "Running"
               /\ info.distance = R(975, 100)
               /\ info.speed = R(975, 100)
               /\ info.calories = R(69975, 100)
               /\ info.calories
                    = RMul(RMul(RMul(RSub(RMul(Q(18), info.speed), Q(20)),
                                     Q(75)),
                                R(1, 1000)),
                           RMul(info.duration, Q(60)))

C3_Witness == C3_Case /\ info.calories = R(69975, 100)

\* C4: a Swimming report has mean speed length_pool x count_pool / 1000 /
\* duration and calories (mean_speed + 1.1) x 2 x weight whatever the action
\* count is, while its distance action x 1.38 / 1000 changes with the action
\* count; SWM [720, 1, 80, 25, 40] gives 0.9936, 1.0 and 336.0, where the
\* mean speed is not distance / duration.
C4_SwimmingSpeedIgnoresAction ==
    (Returned /\ pc = "print" /\ training.cls = "Swimming") =>
        /\ info.speed.n * 1000 * training.duration.n
             = training.length_pool.n * training.count_pool.n
                 * training.duration.d * info.speed.d
        /\ info.calories
             = RMul(RMul(RAdd(info.speed, R(11, 10)), Q(2)), training.weight)
        /\ info.distance = RMul(training.action, R(138, 100000))
        /\ \A a \in Actions :
              LET other == show_training_info([training EXCEPT !.action = a])
              IN  /\ other.speed = info.speed
                  /\ other.calories = info.calories
                  /\ (a # training.action) => other.distance # info.distance
        /\ (packages[i][2] = <<Q(720), Q(1), Q(80), Q(25), Q(40)>>) =>
              /\ info.distance = R(9936, 10000)
              /\ info.speed = Q(1)
              /\ info.calories = Q(336)
              /\ info.speed # RDiv(info.distance, info.duration)

C4_Witness ==
    /\ Returned
    /\ pc = "print"
    /\ training = Swimming(Q(1000), Q(1), Q(80), Q(25), Q(40))
    /\ info.speed = Q(1)
    /\ info.distance = R(138, 100)

\* C5: a walking report has calories (0.035 x weight + floor(mean_speed^2 /
\* height) x 0.029 x weight) x (duration x 60), the quotient being floored
\* before it is multiplied; when mean_speed^2 < height the calories are
\* 0.035 x weight x duration x 60 (WLK [9000, 1, 75, 180] gives 157.5).
C5_WalkingFloorDivision ==
    (Returned /\ pc = "print" /\ training.cls = "SportsWalking") =>
        LET w == training.weight
            minutes == RMul(training.duration, Q(60))
            sq == RMul(info.speed, info.speed)
            floored == (sq.n * training.height.d) \div (sq.d * training.height.n)
        IN  /\ training.height.n > 0
            /\ training.duration.n > 0
            /\ REq(info.calories,
                   RMul(RAdd(RMul(R(35, 1000), w),
                             RMul(RMul(Q(floored), R(29, 1000)), w)),
                        minutes))
            /\ RLess(sq, training.height) =>
                  REq(info.calories, RMul(RMul(R(35, 1000), w), minutes))
            /\ (packages[i][2] = <<Q(9000), Q(1), Q(75), Q(180)>>) =>
                  info.calories = R(1575, 10)

C5_Witness ==
    /\ Returned
    /\ pc = "print"
    /\ training = SportsWalking(Q(9000), Q(1), Q(75), Q(180))
    /\ RLess(RMul(info.speed, info.speed), training.height)
    /\ info.calories = R(1575, 10)

\* C6: the base class Training raises NotImplementedError when asked for the
\* calories, so main on a base Training never gets a report and prints
\* nothing, although its distance and (for a non-zero duration) mean speed
\* are computed; a record returned by read_package is of a class that
\* overrides the formula and never meets that error.
C6_BaseCaloriesUnimplemented ==
    /\ origin = "caller" =>
          /\ training.cls = "Training"
          /\ pc \in {"show", "failed"}
          /\ info = NoInfo
          /\ out = <<>>
          /\ ~IsErr(get_distance(training))
          /\ get_spent_calories(training) = [err |-> "NotImplementedError"]
          /\ (pc = "failed" /\ training.duration.n # 0) =>
                /\ ~IsErr(get_mean_speed(training))
                /\ err = [err |-> "NotImplementedError",
                          at |-> "get_spent_calories"]
    /\ origin = "read_package" =>
          /\ err.err # "NotImplementedError"
          /\ training # NoTraining =>
                /\ training.cls \in {"Running", "SportsWalking", "Swimming"}
                /\ get_spent_calories(training) # [err |-> "NotImplementedError"]

C6_Witness ==
    /\ origin = "caller"
    /\ pc = "failed"
    /\ training = Training(Q(15000), Q(1), Q(75))
    /\ err = [err |-> "NotImplementedError", at |-> "get_spent_calories"]

\* the lines of standard output that are report lines
ReportLines(lines) ==
    SelectSeq(lines, LAMBDA l : l \notin {MSG_KEYERROR, MSG_DEFAULT})

\* the report line of the k-th record of the list
LineOf(k) ==
    get_message(show_training_info(
        read_package(packages[k][1], packages[k][2]).ret))

\* C7: the driver takes the records in list order, and for each one does
\* factory, then report, then print before it starts the next; at every
\* moment the printed lines are those of the records before the current one,
\* in list order, and on completion there is exactly one line per record
\* (for the list of the __main__ block: Swimming, Running, SportsWalking).
C7_DriverOrder ==
    /\ [](origin = "read_package" =>
            /\ i \in 1..Len(packages)
            /\ Len(ReportLines(out)) = IF pc = "done" THEN Len(packages)
                                       ELSE i - 1
            /\ pc = "done" => i = Len(packages)
            /\ \A k \in 1..Len(ReportLines(out)) :
                  ReportLines(out)[k] = LineOf(k)
            /\ packages = MainPackages =>
                  /\ pc # "failed"
                  /\ out = ReportLines(out)
                  /\ \A k \in 1..Len(out) :
                        SubSeq(out[k], 1 + Len(LBL_TYPE), 3 + Len(LBL_TYPE))
                          = <<<<83, 119, 105>>, <<82, 117, 110>>,
                              <<83, 112, 111>>>>[k])
    /\ [][origin = "read_package" =>
            /\ pc = "read" => (pc' \in {"show", "failed"} /\ i' = i)
            /\ pc = "show" => (pc' \in {"print", "failed"} /\ i' = i
                                 /\ out' = out)
            /\ pc = "print" =>
                  /\ out' = Append(out, LineOf(i))
                  /\ \/ pc' = "read" /\ i' = i + 1
                     \/ pc' = "done" /\ i' = i /\ i = Len(packages)]_vars

C7_Witness ==
    /\ packages = MainPackages
    /\ pc = "done"
    /\ Len(out) = 3
    /\ out[1] # out[2]
    /\ out[2] # out[3]
    /\ out[1] # out[3]

\* the printed line out[Len(out)] is the report line of the current training
JustPrinted == out # <<>> /\ (pc = "done" \/ (pc = "read" /\ i > 1))

\* the template: five "label: value unit" fields joined by "; ", then "."
Template(labels, units, values) ==
    labels[1] \o <<58, 32>> \o values[1] \o units[1] \o <<59, 32>>
      \o labels[2] \o <<58, 32>> \o values[2] \o units[2] \o <<59, 32>>
      \o labels[3] \o <<58, 32>> \o values[3] \o units[3] \o <<59, 32>>
      \o labels[4] \o <<58, 32>> \o values[4] \o units[4] \o <<59, 32>>
      \o labels[5] \o <<58, 32>> \o values[5] \o units[5] \o <<46>>

\* the fields of the report of the current training, as text
ReportValues ==
    LET report == show_training_info(training)
    IN  <<ClassNameText(training.cls), Fmt3(report.duration),
          Fmt3(report.distance), Fmt3(report.speed), Fmt3(report.calories)>>

\* C8 as stated: the printed line is the template with the labels
\* "Workout type", "Duration" (h), "Distance" (km), "Avg. speed" (km/h) and
\* "Calories burned", filled with the variant's name and the report's
\* duration, distance, mean speed and calories.
C8_Original ==
    JustPrinted =>
        out[Len(out)] =
            Template(<< <<87, 111, 114, 107, 111, 117, 116, 32, 116, 121, 112, 101>>,
                        <<68, 117, 114, 97, 116, 105, 111, 110>>,
                        <<68, 105, 115, 116, 97, 110, 99, 101>>,
                        <<65, 118, 103, 46, 32, 115, 112, 101, 101, 100>>,
                        <<67, 97, 108, 111, 114, 105, 101, 115, 32, 98, 117, 114, 110, 101, 100>> >>,
                     << <<>>, <<32, 104>>, <<32, 107, 109>>,
                        <<32, 107, 109, 47, 104>>, <<>> >>,
                     ReportValues)

\* C8 amended: the printed line is the template with the labels
\* "Тип тренировки", "Длительность" (ч.), "Дистанция" (км), "Ср. скорость"
\* (км/ч) and "Потрачено ккал", in that order, joined by "; " and ended by
\* ".", filled with the variant's name and the report's duration, distance,
\* mean speed and calories to three decimals.
C8_MessageTemplate ==
    JustPrinted =>
        out[Len(out)] =
            Template(<< <<1058, 1080, 1087, 32, 1090, 1088, 1077, 1085, 1080, 1088, 1086, 1074, 1082, 1080>>,
                        <<1044, 1083, 1080, 1090, 1077, 1083, 1100, 1085, 1086, 1089, 1090, 1100>>,
                        <<1044, 1080, 1089, 1090, 1072, 1085, 1094, 1080, 1103>>,
                        <<1057, 1088, 46, 32, 1089, 1082, 1086, 1088, 1086, 1089, 1090, 1100>>,
                        <<1055, 1086, 1090, 1088, 1072, 1095, 1077, 1085, 1086, 32, 1082, 1082, 1072, 1083>> >>,
                     << <<>>, <<32, 1095, 46>>, <<32, 1082, 1084>>,
                        <<32, 1082, 1084, 47, 1095>>, <<>> >>,
                     ReportValues)

\* the line of SWM [720, 1, 80, 25, 40] has been printed: its distance
\* 0.994, mean speed 1.000 and calories 336.000 all differ
C8_Witness ==
    /\ JustPrinted
    /\ training = Swimming(Q(720), Q(1), Q(80), Q(25), Q(40))
    /\ ReportValues[3] = <<48, 46, 57, 57, 52>>
    /\ ReportValues[4] = <<49, 46, 48, 48, 48>>
    /\ ReportValues[5] = <<51, 51, 54, 46, 48, 48, 48>>

\* C9: a zero duration is accepted by read_package, which returns the
\* record; show_training_info then fails in get_mean_speed with
\* ZeroDivisionError for all three variants, no report is built and no line
\* is printed for the record.  A walking record with height 0 and a non-zero
\* duration fails in get_spent_calories instead.
C9_ZeroDurationFailsLate ==
    /\ (pc = "failed" /\ err.at = "read_package") =>
          /\ err.err = "TypeError"
          /\ Len(packages[i][2])
               # (CASE packages[i][1] = "RUN" -> 3
                    [] packages[i][1] = "WLK" -> 4
                    [] packages[i][1] = "SWM" -> 5)
    /\ (origin = "read_package" /\ training # NoTraining
          /\ err.at # "read_package") =>
          LET zeroDuration == training.duration.n = 0
              zeroHeight == training.cls = "SportsWalking"
                               /\ training.height.n = 0
          IN  /\ (zeroDuration /\ pc # "show") =>
                    /\ pc = "failed"
                    /\ err = [err |-> "ZeroDivisionError",
                              at |-> "get_mean_speed"]
              /\ (zeroHeight /\ ~zeroDuration /\ pc # "show") =>
                    /\ pc = "failed"
                    /\ err = [err |-> "ZeroDivisionError",
                              at |-> "get_spent_calories"]
              /\ ((zeroDuration \/ zeroHeight) /\ pc = "failed") =>
                    /\ info = NoInfo
                    /\ Len(ReportLines(out)) = i - 1
              /\ pc \in {"print", "done"} => ~(zeroDuration \/ zeroHeight)

C9_Witness ==
    /\ origin = "read_package"
    /\ pc = "failed"
    /\ training = Swimming(Q(720), Q(0), Q(80), Q(25), Q(40))
    /\ err = [err |-> "ZeroDivisionError", at |-> "get_mean_speed"]
    /\ out = <<>>

\* C10: for a Running record with weight > 0 and duration > 0 the calories
\* are negative exactly when the mean speed is below 20/18 (18 x action x 0.65
\* < 20 x 1000 x duration), zero exactly when it equals 20/18 and positive
\* otherwise; a negative value is reported and printed as it is.
C10_RunningCaloriesSign ==
    (origin = "read_package" /\ training # NoTraining
       /\ training.cls = "Running"
       /\ training.weight.n > 0 /\ training.duration.n > 0) =>
        \* 18 x action x 13/20 against 20 x 1000 x duration, times 20
        LET lhs == 18 * training.action.n * 13 * training.duration.d
            rhs == 20 * 20000 * training.duration.n * training.action.d
            calories == get_spent_calories(training)
            speed == get_mean_speed(training)
        IN  /\ (calories.n < 0) <=> (lhs < rhs)
            /\ (calories.n < 0) <=> RLess(speed, R(20, 18))
            /\ (calories.n = 0) <=> (lhs = rhs)
            /\ (calories.n = 0) <=> (speed = R(20, 18))
            /\ (calories.n > 0) <=> (lhs > rhs)
            /\ pc = "failed" => err.at = "read_package"
            /\ pc = "print" => info.calories = calories
            /\ (JustPrinted /\ calories.n < 0) =>
                  /\ ReportValues[5][1] = 45
                  /\ out[Len(out)]
                       = LBL_TYPE \o ReportValues[1]
                           \o LBL_DURATION \o ReportValues[2]
                           \o LBL_DISTANCE \o ReportValues[3]
                           \o LBL_SPEED \o ReportValues[4]
                           \o LBL_CALORIES \o ReportValues[5] \o LBL_END

C10_Witness ==
    /\ JustPrinted
    /\ training = Running(Q(1000), Q(1), Q(75))
    /\ get_spent_calories(training) = R(-3735, 100)
    /\ ReportValues[5] = <<45, 51, 55, 46, 51, 53, 48>>

====
